---------------------------- MODULE Spec2Model ----------------------------
(***************************************************************************)
(* EventChain: the escrow / ticketing contract of                          *)
(* backend/contracts/EventChain.sol as a state machine.                    *)
(*                                                                         *)
(* One transaction is one step.  A transaction that reverts leaves no      *)
(* trace in the chain state, so a reverted call is a stuttering step: the  *)
(* operators named <function>Check compute, in the order of the code's     *)
(* modifiers and require statements, the revert reason of a call or "ok",  *)
(* and an action is enabled exactly when its check says "ok" and the       *)
(* external calls it makes do not revert.                                  *)
(*                                                                         *)
(* The one place where a transaction is split is the native-asset          *)
(* transfer msg.sender.call{value: ...}(""), which hands control to the    *)
(* recipient: the step up to the call, the calls the recipient makes back  *)
(* into the contract, and the return (or the revert of the whole           *)
(* transaction, which restores the snapshot taken at entry) are separate   *)
(* steps, and frame holds the suspended call.                              *)
(*                                                                         *)
(* Time is counted in hours (REFUND_BUFFER = 5 hours is 5, and             *)
(* MIN_EVENT_DURATION = 1 hours is 1); amounts are in token units.         *)
(***************************************************************************)
EXTENDS Integers, Sequences, FiniteSets

(***************************************************************************)
(* Program constants.                                                      *)
(***************************************************************************)
MAX_NAME_LENGTH == 100
MAX_URL_LENGTH == 200
MAX_DETAILS_LENGTH == 1000
MAX_LOCATION_LENGTH == 150
MIN_EVENT_DURATION == 1
REFUND_BUFFER == 5

(***************************************************************************)
(* Bounds of the model.  MAX_TICKET_PRICE (1e24 in the source) and         *)
(* MAX_ATTENDEES (5000 in the source) are scaled down so that the limits   *)
(* they set are met within the identities and amounts of the model.        *)
(***************************************************************************)
MAX_TICKET_PRICE == 1000
MAX_ATTENDEES == 2
MaxEvents == 2
DeployTime == 5
MaxTime == 13
InitialBalance == 300
MaxPurchases == 2

(***************************************************************************)
(* Identities and assets.  Base is address(0), the native-asset sentinel;  *)
(* GDOLLAR is the token 0x62B8...9c7A that bears the 1% fee; USDC stands   *)
(* for every other supported ERC20 token; UNLISTED is a token the          *)
(* constructor was not given.  This is address(this).                      *)
(***************************************************************************)
Base == "Base"
GDOLLAR == "G$"
USDC == "USDC"
UNLISTED == "UNLISTED"
This == "this"
ubiPool == "ubiPool"
Users == {"u1", "u2"}
\* The identities that create events; every user buys, refunds and calls the
\* owner-only operations.
Creators == {"u1"}
Addresses == Users \cup {This, ubiPool}
Assets == {Base, USDC, GDOLLAR}
Tokens == {Base, USDC, GDOLLAR, UNLISTED}

VARIABLES
    supportedTokens,     \* mapping(address => bool), as the set of true keys
    paused,              \* bool
    events,              \* Event[]; event id i is events[i + 1]
    eventAttendees,      \* mapping(uint256 => address[])
    creatorEvents,       \* mapping(address => Event[])
    hasPurchasedTicket,  \* mapping(uint256 => mapping(address => bool)), as sets
    baseFundsHeld,       \* mapping(uint256 => uint256)
    balance,             \* balance[a][t]: what identity a owns of asset t
    now,                 \* block.timestamp
    frame,               \* the call suspended in an outbound native transfer
    purchases            \* how many tickets were sold so far (bounds the model)

vars == <<supportedTokens, paused, events, eventAttendees, creatorEvents,
          hasPurchasedTicket, baseFundsHeld, balance, now, frame, purchases>>

EventIds == 0 .. (MaxEvents - 1)

NoFrame == [op |-> "none"]

\* ReentrancyGuard._status == ENTERED
entered == frame.op # "none"

\* The storage and balances a revert restores.
Snapshot ==
    [events |-> events, eventAttendees |-> eventAttendees,
     creatorEvents |-> creatorEvents, hasPurchasedTicket |-> hasPurchasedTicket,
     baseFundsHeld |-> baseFundsHeld, balance |-> balance]

\* events[i] of the source
Ev(i) == events[i + 1]

\* Move amt of asset t from identity a to identity b.
Move(bal, t, a, b, amt) ==
    IF a = b THEN bal
    ELSE [bal EXCEPT ![a][t] = @ - amt, ![b][t] = @ + amt]

\* The storage and balances become those of snapshot S.
Commit(S) ==
    /\ events' = S.events
    /\ eventAttendees' = S.eventAttendees
    /\ creatorEvents' = S.creatorEvents
    /\ hasPurchasedTicket' = S.hasPurchasedTicket
    /\ baseFundsHeld' = S.baseFundsHeld
    /\ balance' = S.balance

\* The position of the first a in s, or 0.
IndexOf(s, a) ==
    IF \E k \in 1 .. Len(s) : s[k] = a
    THEN CHOOSE k \in 1 .. Len(s) :
             s[k] = a /\ \A j \in 1 .. (k - 1) : s[j] # a
    ELSE 0

\* The removal loop as it would be without attendees.pop().
RemoveAttendeeNoPop(s, a) ==
    LET k == IndexOf(s, a)
    IN  IF k = 0 THEN s ELSE [s EXCEPT ![k] = s[Len(s)]]

\* for (i ...) if (attendees[i] == msg.sender)
\*     { attendees[i] = attendees[length - 1]; attendees.pop(); break; }
RemoveAttendee(s, a) ==
    LET k == IndexOf(s, a)
    IN  IF k = 0 THEN s
        ELSE SubSeq([s EXCEPT ![k] = s[Len(s)]], 1, Len(s) - 1)

\* The state after construction as it would be if the contract were deployed
\* paused.
InitPaused ==
    /\ supportedTokens = {Base} \cup {USDC, GDOLLAR}
    /\ paused = TRUE
    /\ events = <<>>
    /\ eventAttendees = [i \in EventIds |-> <<>>]
    /\ creatorEvents = [u \in Users |-> <<>>]
    /\ hasPurchasedTicket = [i \in EventIds |-> {}]
    /\ baseFundsHeld = [i \in EventIds |-> 0]
    /\ balance = [a \in Addresses |->
                    [t \in Assets |-> IF a \in Users THEN InitialBalance ELSE 0]]
    /\ now = DeployTime
    /\ frame = NoFrame
    /\ purchases = 0

(***************************************************************************)
(* constructor([USDC, GDOLLAR]): the native sentinel is always supported,  *)
(* then the tokens of the argument.                                        *)
(***************************************************************************)
Init ==
    /\ supportedTokens = {Base} \cup {USDC, GDOLLAR}
    /\ paused = FALSE
    /\ events = <<>>
    /\ eventAttendees = [i \in EventIds |-> <<>>]
    /\ creatorEvents = [u \in Users |-> <<>>]
    /\ hasPurchasedTicket = [i \in EventIds |-> {}]
    /\ baseFundsHeld = [i \in EventIds |-> 0]
    /\ balance = [a \in Addresses |->
                    [t \in Assets |-> IF a \in Users THEN InitialBalance ELSE 0]]
    /\ now = DeployTime
    /\ frame = NoFrame
    /\ purchases = 0

(***************************************************************************)
(* createEvent                                                             *)
(***************************************************************************)
\* The lengths of _eventName, _eventCardImgUrl, _eventDetails, _eventLocation:
\* one valid choice, and each field in turn empty or one byte too long.
StringLens ==
    {<<1, 1, 1, 1>>,
     <<0, 1, 1, 1>>, <<MAX_NAME_LENGTH + 1, 1, 1, 1>>,
     <<1, 0, 1, 1>>, <<1, MAX_URL_LENGTH + 1, 1, 1>>,
     <<1, 1, 0, 1>>, <<1, 1, MAX_DETAILS_LENGTH + 1, 1>>,
     <<1, 1, 1, 0>>, <<1, 1, 1, MAX_LOCATION_LENGTH + 1>>}
Prices == {0, 100, 150, MAX_TICKET_PRICE + 1}
StartDates == {DeployTime - 1, DeployTime + REFUND_BUFFER + 1}
EndDates == {DeployTime + REFUND_BUFFER + 1,
             DeployTime + REFUND_BUFFER + 1 + MIN_EVENT_DURATION}

createEventCheck(nameLen, urlLen, detailsLen, locationLen, startDate, endDate, ticketPrice, paymentToken) ==
    IF paused THEN "Contract paused"
    ELSE IF ~(nameLen > 0 /\ nameLen <= MAX_NAME_LENGTH) THEN "Invalid name"
    ELSE IF ~(urlLen > 0 /\ urlLen <= MAX_URL_LENGTH) THEN "Invalid URL"
    ELSE IF ~(detailsLen > 0 /\ detailsLen <= MAX_DETAILS_LENGTH)
        THEN "Invalid details"
    ELSE IF ~(locationLen > 0 /\ locationLen <= MAX_LOCATION_LENGTH)
        THEN "Invalid location"
    ELSE IF ~(ticketPrice > 0 /\ ticketPrice <= MAX_TICKET_PRICE)
        THEN "Invalid price"
    ELSE IF ~(startDate >= now) THEN "Start date must be future"
    ELSE IF ~(endDate >= startDate + MIN_EVENT_DURATION) THEN "Duration too short"
    ELSE IF paymentToken \notin supportedTokens THEN "Unsupported token"
    ELSE "ok"

\* The struct of createEvent as it would be with isActive left at its default.
NewEventNotActivated(sender, nameLen, urlLen, detailsLen, locationLen, startDate, endDate, ticketPrice, paymentToken) ==
    [owner |-> sender, eventName |-> nameLen, eventCardImgUrl |-> urlLen,
     eventDetails |-> detailsLen, startDate |-> startDate, endDate |-> endDate,
     startTime |-> 0, endTime |-> 0, eventLocation |-> locationLen,
     isActive |-> FALSE, ticketPrice |-> ticketPrice, fundsHeld |-> 0,
     minimumAge |-> 0, isCanceled |-> FALSE, fundsReleased |-> FALSE,
     paymentToken |-> paymentToken]

NewEvent(sender, nameLen, urlLen, detailsLen, locationLen, startDate, endDate, ticketPrice, paymentToken) ==
    [owner |-> sender, eventName |-> nameLen, eventCardImgUrl |-> urlLen,
     eventDetails |-> detailsLen, startDate |-> startDate, endDate |-> endDate,
     startTime |-> 0, endTime |-> 0, eventLocation |-> locationLen,
     isActive |-> TRUE, ticketPrice |-> ticketPrice, fundsHeld |-> 0,
     minimumAge |-> 0, isCanceled |-> FALSE, fundsReleased |-> FALSE,
     paymentToken |-> paymentToken]

createEvent(sender, nameLen, urlLen, detailsLen, locationLen, startDate, endDate, ticketPrice, paymentToken) ==
    /\ Len(events) < MaxEvents
    /\ createEventCheck(nameLen, urlLen, detailsLen, locationLen, startDate,
                        endDate, ticketPrice, paymentToken) = "ok"
    /\ LET newEvent == NewEvent(sender, nameLen, urlLen, detailsLen, locationLen,
                                startDate, endDate, ticketPrice, paymentToken)
       IN  /\ events' = Append(events, newEvent)
           /\ creatorEvents' =
                  [creatorEvents EXCEPT ![sender] = Append(@, newEvent)]
    /\ UNCHANGED <<supportedTokens, paused, eventAttendees, hasPurchasedTicket,
                   baseFundsHeld, balance, now, frame, purchases>>

CreateEvent ==
    \E sender \in Creators, lens \in StringLens, startDate \in StartDates,
       endDate \in EndDates, ticketPrice \in Prices, paymentToken \in Tokens :
        createEvent(sender, lens[1], lens[2], lens[3], lens[4], startDate,
                    endDate, ticketPrice, paymentToken)

(***************************************************************************)
(* Ticket purchase.                                                        *)
(***************************************************************************)
\* uint256 fee = (amount * 100) / 10000
FeeOf(amount) == (amount * 100) \div 10000

\* The modifiers and require statements of _processTicketPurchase.
processTicketPurchaseCheck(buyer, eventId, amount) ==
    IF ~(eventId < Len(events)) THEN "Invalid event"
    ELSE IF paused THEN "Contract paused"
    ELSE IF Ev(eventId).paymentToken # GDOLLAR THEN "Only for G$ token"
    ELSE IF ~(Ev(eventId).startDate > now) THEN "Event expired"
    ELSE IF ~Ev(eventId).isActive THEN "Event inactive"
    ELSE IF buyer \in hasPurchasedTicket[eventId] THEN "Already purchased"
    ELSE IF ~(Len(eventAttendees[eventId]) < MAX_ATTENDEES)
        THEN "Event at capacity"
    ELSE IF amount # Ev(eventId).ticketPrice THEN "Incorrect amount"
    ELSE "ok"

\* The body of _processTicketPurchase on snapshot S.  The value transfer()
\* returns is not looked at: feeSent = FALSE is the token reporting failure.
processTicketPurchase(S, buyer, eventId, amount, feeSent) ==
    LET fee == FeeOf(amount)
        netAmount == amount - fee
        S1 == [S EXCEPT !.hasPurchasedTicket[eventId] = @ \cup {buyer},
                        !.eventAttendees[eventId] = Append(@, buyer)]
        S2 == IF fee > 0 /\ feeSent
              THEN [S1 EXCEPT !.balance = Move(@, GDOLLAR, This, ubiPool, fee)]
              ELSE S1
    IN  [S2 EXCEPT !.events[eventId + 1].fundsHeld = @ + netAmount]

\* onTokenTransfer, reached through GDOLLAR.transferAndCall(this, value, data)
\* sent by from: the token moves value to the contract, then calls back.
onTokenTransferCheck(from, value, eventId) ==
    IF balance[from][GDOLLAR] < value THEN "ERC20: transfer amount exceeds balance"
    ELSE processTicketPurchaseCheck(from, eventId, value)

onTokenTransfer(from, value, eventId, feeSent) ==
    /\ onTokenTransferCheck(from, value, eventId) = "ok"
    /\ Commit(processTicketPurchase(
                  [Snapshot EXCEPT !.balance = Move(@, GDOLLAR, from, This, value)],
                  from, eventId, value, feeSent))
    /\ purchases' = purchases + 1
    /\ UNCHANGED <<supportedTokens, paused, now, frame>>

\* buyTicket as it would be without
\* require(!hasPurchasedTicket[_index][msg.sender], "Already purchased").
buyTicketCheckNoDuplicateCheck(index, sender, value, allowance) ==
    IF entered THEN "ReentrancyGuard: reentrant call"
    ELSE IF ~(index < Len(events)) THEN "Invalid event"
    ELSE IF paused THEN "Contract paused"
    ELSE IF ~(Ev(index).startDate > now) THEN "Event expired"
    ELSE IF ~Ev(index).isActive THEN "Event inactive"
    ELSE IF ~(Len(eventAttendees[index]) < MAX_ATTENDEES) THEN "Event at capacity"
    ELSE IF Ev(index).paymentToken = Base
        THEN (IF value # Ev(index).ticketPrice THEN "Incorrect Base amount"
              ELSE "ok")
    ELSE IF Ev(index).paymentToken = GDOLLAR
        THEN (IF balance[This][GDOLLAR] < Ev(index).ticketPrice
              THEN "ERC20: transfer amount exceeds balance"
              ELSE processTicketPurchaseCheck(This, index, Ev(index).ticketPrice))
    ELSE IF allowance < Ev(index).ticketPrice THEN "Insufficient allowance"
    ELSE IF balance[sender][Ev(index).paymentToken] < Ev(index).ticketPrice
        THEN "Transfer failed"
    ELSE "ok"

\* buyTicket as it would be with require(msg.value >= price, ...) on the
\* native rail.
buyTicketCheckAcceptsOverpayment(index, sender, value, allowance) ==
    IF entered THEN "ReentrancyGuard: reentrant call"
    ELSE IF ~(index < Len(events)) THEN "Invalid event"
    ELSE IF paused THEN "Contract paused"
    ELSE IF ~(Ev(index).startDate > now) THEN "Event expired"
    ELSE IF ~Ev(index).isActive THEN "Event inactive"
    ELSE IF sender \in hasPurchasedTicket[index] THEN "Already purchased"
    ELSE IF ~(Len(eventAttendees[index]) < MAX_ATTENDEES) THEN "Event at capacity"
    ELSE IF Ev(index).paymentToken = Base
        THEN (IF value < Ev(index).ticketPrice THEN "Incorrect Base amount"
              ELSE "ok")
    ELSE IF Ev(index).paymentToken = GDOLLAR
        THEN (IF balance[This][GDOLLAR] < Ev(index).ticketPrice
              THEN "ERC20: transfer amount exceeds balance"
              ELSE processTicketPurchaseCheck(This, index, Ev(index).ticketPrice))
    ELSE IF allowance < Ev(index).ticketPrice THEN "Insufficient allowance"
    ELSE IF balance[sender][Ev(index).paymentToken] < Ev(index).ticketPrice
        THEN "Transfer failed"
    ELSE "ok"

\* buyTicket as it would be with require(event_.startDate >= block.timestamp).
buyTicketCheckAtStartDate(index, sender, value, allowance) ==
    IF entered THEN "ReentrancyGuard: reentrant call"
    ELSE IF ~(index < Len(events)) THEN "Invalid event"
    ELSE IF paused THEN "Contract paused"
    ELSE IF ~(Ev(index).startDate >= now) THEN "Event expired"
    ELSE IF ~Ev(index).isActive THEN "Event inactive"
    ELSE IF sender \in hasPurchasedTicket[index] THEN "Already purchased"
    ELSE IF ~(Len(eventAttendees[index]) < MAX_ATTENDEES) THEN "Event at capacity"
    ELSE IF Ev(index).paymentToken = Base
        THEN (IF value # Ev(index).ticketPrice THEN "Incorrect Base amount"
              ELSE "ok")
    ELSE IF Ev(index).paymentToken = GDOLLAR
        THEN (IF balance[This][GDOLLAR] < Ev(index).ticketPrice
              THEN "ERC20: transfer amount exceeds balance"
              ELSE processTicketPurchaseCheck(This, index, Ev(index).ticketPrice))
    ELSE IF allowance < Ev(index).ticketPrice THEN "Insufficient allowance"
    ELSE IF balance[sender][Ev(index).paymentToken] < Ev(index).ticketPrice
        THEN "Transfer failed"
    ELSE "ok"

\* The modifiers and require statements of buyTicket, and the reverts of the
\* token calls it makes.
buyTicketCheck(index, sender, value, allowance) ==
    IF entered THEN "ReentrancyGuard: reentrant call"
    ELSE IF ~(index < Len(events)) THEN "Invalid event"
    ELSE IF paused THEN "Contract paused"
    ELSE IF ~(Ev(index).startDate > now) THEN "Event expired"
    ELSE IF ~Ev(index).isActive THEN "Event inactive"
    ELSE IF sender \in hasPurchasedTicket[index] THEN "Already purchased"
    ELSE IF ~(Len(eventAttendees[index]) < MAX_ATTENDEES) THEN "Event at capacity"
    ELSE IF Ev(index).paymentToken = Base
        THEN (IF value # Ev(index).ticketPrice THEN "Incorrect Base amount"
              ELSE "ok")
    ELSE IF Ev(index).paymentToken = GDOLLAR
        THEN (IF balance[This][GDOLLAR] < Ev(index).ticketPrice
              THEN "ERC20: transfer amount exceeds balance"
              ELSE processTicketPurchaseCheck(This, index, Ev(index).ticketPrice))
    ELSE IF allowance < Ev(index).ticketPrice THEN "Insufficient allowance"
    ELSE IF balance[sender][Ev(index).paymentToken] < Ev(index).ticketPrice
        THEN "Transfer failed"
    ELSE "ok"

\* The payment of buyTicket as it would be with one ledger for both rails:
\* a native payment is credited to fundsHeld.
buyTicketPaymentSingleLedger(S, index, sender, value, feeSent) ==
    LET price == Ev(index).ticketPrice
        token == Ev(index).paymentToken
    IN  IF token = Base
        THEN [S EXCEPT !.events[index + 1].fundsHeld = @ + price]
        ELSE IF token = GDOLLAR
        THEN LET S1 == processTicketPurchase(S, This, index, price, feeSent)
                 fee == price \div 100
                 netAmount == price - fee
             IN  [S1 EXCEPT !.events[index + 1].fundsHeld = @ + netAmount]
        ELSE [S EXCEPT !.balance = Move(@, token, sender, This, price),
                       !.events[index + 1].fundsHeld = @ + price]

\* The payment branch of buyTicket on snapshot S.
buyTicketPayment(S, index, sender, value, feeSent) ==
    LET price == Ev(index).ticketPrice
        token == Ev(index).paymentToken
    IN  IF token = Base
        THEN [S EXCEPT !.baseFundsHeld[index] = @ + price]
        ELSE IF token = GDOLLAR
        THEN \* transferAndCall(address(this), price, data) is sent by the
             \* contract: the token moves price from the contract to the
             \* contract and calls onTokenTransfer(address(this), price, data)
             LET S1 == processTicketPurchase(S, This, index, price, feeSent)
                 fee == price \div 100
                 netAmount == price - fee
             IN  [S1 EXCEPT !.events[index + 1].fundsHeld = @ + netAmount]
        ELSE [S EXCEPT !.balance = Move(@, token, sender, This, price),
                       !.events[index + 1].fundsHeld = @ + price]

buyTicket(index, sender, value, allowance, feeSent) ==
    /\ balance[sender][Base] >= value
    /\ buyTicketCheck(index, sender, value, allowance) = "ok"
    /\ LET S0 == [Snapshot EXCEPT !.balance = Move(@, Base, sender, This, value)]
           S1 == buyTicketPayment(S0, index, sender, value, feeSent)
       IN  Commit([S1 EXCEPT !.hasPurchasedTicket[index] = @ \cup {sender},
                             !.eventAttendees[index] = Append(@, sender)])
    /\ purchases' = purchases + 1
    /\ UNCHANGED <<supportedTokens, paused, now, frame>>

\* msg.value and the allowance the buyer has given the contract.
Values == {0, 100, 150}
Allowances == {0, 150}

BuyTicket ==
    \E index \in EventIds, sender \in Users, value \in Values,
       allowance \in Allowances, feeSent \in BOOLEAN :
        /\ purchases < MaxPurchases
        /\ index < Len(events)
        /\ Ev(index).paymentToken # Base => value = 0
        /\ Ev(index).paymentToken # GDOLLAR => feeSent
        /\ buyTicket(index, sender, value, allowance, feeSent)

OnTokenTransfer ==
    \E from \in Users, value \in Values, eventId \in EventIds,
       feeSent \in BOOLEAN :
        /\ purchases < MaxPurchases
        /\ onTokenTransfer(from, value, eventId, feeSent)

(***************************************************************************)
(* cancelEvent                                                             *)
(***************************************************************************)
\* cancelEvent as it would be without the modifier onlyOwner.
cancelEventCheckAnyCaller(index, sender) ==
    IF ~(index < Len(events)) THEN "Panic: array out-of-bounds access"
    ELSE IF paused THEN "Contract paused"
    ELSE IF ~Ev(index).isActive THEN "Already canceled"
    ELSE "ok"

\* cancelEvent as it would be without require(isActive, "Already canceled").
cancelEventCheckNoActiveCheck(index, sender) ==
    IF ~(index < Len(events)) THEN "Panic: array out-of-bounds access"
    ELSE IF Ev(index).owner # sender THEN "Not event owner"
    ELSE IF paused THEN "Contract paused"
    ELSE "ok"

cancelEventCheck(index, sender) ==
    IF ~(index < Len(events)) THEN "Panic: array out-of-bounds access"
    ELSE IF Ev(index).owner # sender THEN "Not event owner"
    ELSE IF paused THEN "Contract paused"
    ELSE IF ~Ev(index).isActive THEN "Already canceled"
    ELSE "ok"

\* cancelEvent as it would be if it switched the event off and on.
cancelEventToggles(index, sender) ==
    /\ index < Len(events)
    /\ Ev(index).owner = sender
    /\ events' = [events EXCEPT ![index + 1].isActive = ~@,
                                ![index + 1].isCanceled = ~@]
    /\ UNCHANGED <<supportedTokens, paused, eventAttendees, creatorEvents,
                   hasPurchasedTicket, baseFundsHeld, balance, now, frame, purchases>>

\* cancelEvent as it would be if it canceled every event of the caller.
cancelEventOfOwner(index, sender) ==
    /\ cancelEventCheck(index, sender) = "ok"
    /\ events' = [k \in 1 .. Len(events) |->
                     IF events[k].owner = sender
                     THEN [events[k] EXCEPT !.isActive = FALSE,
                                            !.isCanceled = TRUE]
                     ELSE events[k]]
    /\ UNCHANGED <<supportedTokens, paused, eventAttendees, creatorEvents,
                   hasPurchasedTicket, baseFundsHeld, balance, now, frame, purchases>>

cancelEvent(index, sender) ==
    /\ cancelEventCheck(index, sender) = "ok"
    /\ events' = [events EXCEPT ![index + 1].isActive = FALSE,
                                ![index + 1].isCanceled = TRUE]
    /\ UNCHANGED <<supportedTokens, paused, eventAttendees, creatorEvents,
                   hasPurchasedTicket, baseFundsHeld, balance, now, frame, purchases>>

CancelEvent ==
    \E index \in EventIds, sender \in Users : cancelEvent(index, sender)

(***************************************************************************)
(* Refunds.                                                                *)
(***************************************************************************)
\* refundAmount as it would be with the 99% rule applied on every rail.
RefundAmountLessFee(index) == (Ev(index).ticketPrice * 99) \div 100

\* The refund as it would be without the 99% rule of the G$ rail.
RefundAmountFull(index) == Ev(index).ticketPrice

\* refundAmount: ticketPrice, or (ticketPrice * 99) / 100 for an event paid in G$
RefundAmount(index) ==
    IF Ev(index).paymentToken = GDOLLAR
    THEN (Ev(index).ticketPrice * 99) \div 100
    ELSE Ev(index).ticketPrice

\* if (!isCanceled) require(block.timestamp < startDate - REFUND_BUFFER), in
\* checked uint256 arithmetic
refundWindowCheck(index) ==
    IF Ev(index).isCanceled THEN "ok"
    ELSE IF Ev(index).startDate < REFUND_BUFFER THEN "Panic: arithmetic underflow"
    ELSE IF ~(now < Ev(index).startDate - REFUND_BUFFER) THEN "Refund period ended"
    ELSE "ok"

\* requestRefund as it would be without the modifier nonReentrant.
requestRefundCheckNotGuarded(index, sender) ==
    IF ~(index < Len(events)) THEN "Invalid event"
    ELSE IF paused THEN "Contract paused"
    ELSE IF sender \notin hasPurchasedTicket[index] THEN "No ticket purchased"
    ELSE IF Ev(index).paymentToken = Base
            /\ ~(baseFundsHeld[index] >= RefundAmount(index))
        THEN "Insufficient Base funds"
    ELSE IF Ev(index).paymentToken # Base
            /\ ~(Ev(index).fundsHeld >= RefundAmount(index))
        THEN "Insufficient funds"
    ELSE IF refundWindowCheck(index) # "ok" THEN refundWindowCheck(index)
    ELSE IF balance[This][Ev(index).paymentToken] < RefundAmount(index)
        THEN (IF Ev(index).paymentToken = Base THEN "Base refund failed"
              ELSE "SafeERC20: transfer failed")
    ELSE "ok"

\* The modifiers and require statements of requestRefund, and the revert of
\* the outbound transfer when the contract does not own the amount.
requestRefundCheck(index, sender) ==
    IF entered THEN "ReentrancyGuard: reentrant call"
    ELSE IF ~(index < Len(events)) THEN "Invalid event"
    ELSE IF paused THEN "Contract paused"
    ELSE IF sender \notin hasPurchasedTicket[index] THEN "No ticket purchased"
    ELSE IF Ev(index).paymentToken = Base
            /\ ~(baseFundsHeld[index] >= RefundAmount(index))
        THEN "Insufficient Base funds"
    ELSE IF Ev(index).paymentToken # Base
            /\ ~(Ev(index).fundsHeld >= RefundAmount(index))
        THEN "Insufficient funds"
    ELSE IF refundWindowCheck(index) # "ok" THEN refundWindowCheck(index)
    ELSE IF balance[This][Ev(index).paymentToken] < RefundAmount(index)
        THEN (IF Ev(index).paymentToken = Base THEN "Base refund failed"
              ELSE "SafeERC20: transfer failed")
    ELSE "ok"

\* The payment of requestRefund as it would be without
\* hasPurchasedTicket[_index][msg.sender] = false.
requestRefundPaymentKeepsFlag(S, index, sender) ==
    LET token == Ev(index).paymentToken
        refundAmount == RefundAmount(index)
        S2 == IF token = Base
              THEN [S EXCEPT !.baseFundsHeld[index] = @ - refundAmount]
              ELSE [S EXCEPT !.events[index + 1].fundsHeld = @ - refundAmount]
    IN  [S2 EXCEPT !.balance = Move(@, token, This, sender, refundAmount)]

\* requestRefund up to and including the outbound transfer (lines 529-539).
requestRefundPayment(S, index, sender) ==
    LET token == Ev(index).paymentToken
        refundAmount == RefundAmount(index)
        S1 == [S EXCEPT !.hasPurchasedTicket[index] = @ \ {sender}]
        S2 == IF token = Base
              THEN [S1 EXCEPT !.baseFundsHeld[index] = @ - refundAmount]
              ELSE [S1 EXCEPT !.events[index + 1].fundsHeld = @ - refundAmount]
    IN  [S2 EXCEPT !.balance = Move(@, token, This, sender, refundAmount)]

\* requestRefund as it would be without the removal loop.
requestRefundRemovalSkipped(S, index, sender) == S

\* requestRefund after the outbound transfer (lines 541-551).
requestRefundRemoval(S, index, sender) ==
    [S EXCEPT !.eventAttendees[index] = RemoveAttendee(@, sender)]

\* A token transfer returns to the contract at once; the native transfer
\* msg.sender.call{value: refundAmount}("") runs the recipient's code, and
\* the call stays suspended in frame until that code returns.
requestRefund(index, sender) ==
    /\ requestRefundCheck(index, sender) = "ok"
    /\ IF Ev(index).paymentToken = Base
       THEN /\ Commit(requestRefundPayment(Snapshot, index, sender))
            /\ frame' = [op |-> "requestRefund", index |-> index,
                         sender |-> sender, saved |-> Snapshot]
       ELSE /\ Commit(requestRefundRemoval(
                          requestRefundPayment(Snapshot, index, sender),
                          index, sender))
            /\ frame' = frame
    /\ UNCHANGED <<supportedTokens, paused, now, purchases>>

\* The recipient's code returns (success), and requestRefund runs to its end;
\* or it fails, require(success, "Base refund failed") reverts the
\* transaction, and everything done since its start is undone.
requestRefundReturn(success) ==
    /\ frame.op = "requestRefund"
    /\ IF success
       THEN Commit(requestRefundRemoval(Snapshot, frame.index, frame.sender))
       ELSE Commit(frame.saved)
    /\ frame' = NoFrame
    /\ UNCHANGED <<supportedTokens, paused, now, purchases>>

\* The modifiers and require statements of requestRefund1, and the revert of
\* _safeTransfer: IERC20(address(0)) has no code to call.
requestRefund1Check(index, sender) ==
    IF entered THEN "ReentrancyGuard: reentrant call"
    ELSE IF ~(index < Len(events)) THEN "Invalid event"
    ELSE IF paused THEN "Contract paused"
    ELSE IF sender \notin hasPurchasedTicket[index] THEN "No ticket purchased"
    ELSE IF ~(Ev(index).fundsHeld >= RefundAmount(index)) THEN "Insufficient funds"
    ELSE IF refundWindowCheck(index) # "ok" THEN refundWindowCheck(index)
    ELSE IF Ev(index).paymentToken = Base THEN "call to non-contract"
    ELSE IF balance[This][Ev(index).paymentToken] < RefundAmount(index)
        THEN "Transfer failed"
    ELSE "ok"

\* The body of _processRefund on snapshot S.
processRefund(S, index, sender, refundAmount) ==
    LET S1 == [S EXCEPT !.hasPurchasedTicket[index] = @ \ {sender},
                        !.events[index + 1].fundsHeld = @ - refundAmount,
                        !.eventAttendees[index] = RemoveAttendee(@, sender)]
    IN  [S1 EXCEPT !.balance =
                       Move(@, Ev(index).paymentToken, This, sender, refundAmount)]

requestRefund1(index, sender) ==
    /\ requestRefund1Check(index, sender) = "ok"
    /\ Commit(processRefund(Snapshot, index, sender, RefundAmount(index)))
    /\ UNCHANGED <<supportedTokens, paused, now, frame, purchases>>

RequestRefund ==
    \E index \in EventIds, sender \in Users : requestRefund(index, sender)

RequestRefundReturn ==
    \E success \in BOOLEAN : requestRefundReturn(success)

RequestRefund1 ==
    \E index \in EventIds, sender \in Users : requestRefund1(index, sender)

(***************************************************************************)
(* Release of the escrow to the event's owner.                             *)
(***************************************************************************)
\* The escrow balance of event index on the rail of its payment token.
EscrowOf(S, index) ==
    IF S.events[index + 1].paymentToken = Base
    THEN S.baseFundsHeld[index]
    ELSE S.events[index + 1].fundsHeld

\* releaseFunds as it would be without
\* require(!events[_index].fundsReleased, "Funds already released").
releaseFundsCheckNoLatch(index, sender) ==
    IF ~(index < Len(events)) THEN "Panic: array out-of-bounds access"
    ELSE IF Ev(index).owner # sender THEN "Not event owner"
    ELSE IF entered THEN "ReentrancyGuard: reentrant call"
    ELSE IF ~(now > Ev(index).endDate) THEN "Event has not ended yet"
    ELSE IF Ev(index).isCanceled THEN "Cannot release funds for canceled event"
    ELSE IF balance[This][Ev(index).paymentToken] < EscrowOf(Snapshot, index)
        THEN (IF Ev(index).paymentToken = Base THEN "Base transfer failed"
              ELSE "SafeERC20: transfer failed")
    ELSE "ok"

\* The payment of releaseFunds as it would be with the token branch taken on
\* every rail (what releaseFunds1 does).
releaseFundsPaymentTokenRailOnly(S, index, sender) ==
    LET amountToRelease == S.events[index + 1].fundsHeld
        S1 == [S EXCEPT !.events[index + 1].fundsHeld = 0]
    IN  [S1 EXCEPT !.balance =
                       Move(@, Ev(index).paymentToken, This, sender,
                            amountToRelease)]

\* releaseFunds as it would be with
\* require(block.timestamp >= events[_index].endDate, ...).
releaseFundsCheckAtEndDate(index, sender) ==
    IF ~(index < Len(events)) THEN "Panic: array out-of-bounds access"
    ELSE IF Ev(index).owner # sender THEN "Not event owner"
    ELSE IF entered THEN "ReentrancyGuard: reentrant call"
    ELSE IF ~(now >= Ev(index).endDate) THEN "Event has not ended yet"
    ELSE IF Ev(index).isCanceled THEN "Cannot release funds for canceled event"
    ELSE IF Ev(index).fundsReleased THEN "Funds already released"
    ELSE IF balance[This][Ev(index).paymentToken] < EscrowOf(Snapshot, index)
        THEN (IF Ev(index).paymentToken = Base THEN "Base transfer failed"
              ELSE "SafeERC20: transfer failed")
    ELSE "ok"

\* releaseFunds as it would be without
\* require(!events[_index].isCanceled, "Cannot release funds for canceled event").
releaseFundsCheckNoCancelCheck(index, sender) ==
    IF ~(index < Len(events)) THEN "Panic: array out-of-bounds access"
    ELSE IF Ev(index).owner # sender THEN "Not event owner"
    ELSE IF entered THEN "ReentrancyGuard: reentrant call"
    ELSE IF ~(now > Ev(index).endDate) THEN "Event has not ended yet"
    ELSE IF Ev(index).fundsReleased THEN "Funds already released"
    ELSE IF balance[This][Ev(index).paymentToken] < EscrowOf(Snapshot, index)
        THEN (IF Ev(index).paymentToken = Base THEN "Base transfer failed"
              ELSE "SafeERC20: transfer failed")
    ELSE "ok"

\* The modifiers and require statements of releaseFunds, and the revert of
\* the outbound transfer when the contract does not own the amount.
releaseFundsCheck(index, sender) ==
    IF ~(index < Len(events)) THEN "Panic: array out-of-bounds access"
    ELSE IF Ev(index).owner # sender THEN "Not event owner"
    ELSE IF entered THEN "ReentrancyGuard: reentrant call"
    ELSE IF ~(now > Ev(index).endDate) THEN "Event has not ended yet"
    ELSE IF Ev(index).isCanceled THEN "Cannot release funds for canceled event"
    ELSE IF Ev(index).fundsReleased THEN "Funds already released"
    ELSE IF balance[This][Ev(index).paymentToken] < EscrowOf(Snapshot, index)
        THEN (IF Ev(index).paymentToken = Base THEN "Base transfer failed"
              ELSE "SafeERC20: transfer failed")
    ELSE "ok"

\* The payment of releaseFunds as it would be if every release were paid in
\* the native currency.
releaseFundsPaymentNativeOnly(S, index, sender) ==
    LET amountToRelease == EscrowOf(S, index)
        S1 == IF Ev(index).paymentToken = Base
              THEN [S EXCEPT !.baseFundsHeld[index] = 0]
              ELSE [S EXCEPT !.events[index + 1].fundsHeld = 0]
    IN  [S1 EXCEPT !.balance = Move(@, Base, This, sender, amountToRelease)]

\* The payment of releaseFunds as it would be without zeroing the ledger.
releaseFundsPaymentKeepsLedger(S, index, sender) ==
    [S EXCEPT !.balance = Move(@, Ev(index).paymentToken, This, sender,
                               EscrowOf(S, index))]

\* releaseFunds up to and including the outbound transfer (lines 601-613).
releaseFundsPayment(S, index, sender) ==
    LET token == Ev(index).paymentToken
        amountToRelease == EscrowOf(S, index)
        S1 == IF token = Base
              THEN [S EXCEPT !.baseFundsHeld[index] = 0]
              ELSE [S EXCEPT !.events[index + 1].fundsHeld = 0]
    IN  [S1 EXCEPT !.balance = Move(@, token, This, sender, amountToRelease)]

\* The end of releaseFunds as it would be if a release deactivated the event.
releaseFundsLatchDeactivates(S, index) ==
    [S EXCEPT !.events[index + 1].fundsReleased = TRUE,
              !.events[index + 1].isActive = FALSE]

\* releaseFunds after the outbound transfer (line 615).
releaseFundsLatch(S, index) ==
    [S EXCEPT !.events[index + 1].fundsReleased = TRUE]

releaseFunds(index, sender) ==
    /\ releaseFundsCheck(index, sender) = "ok"
    /\ IF Ev(index).paymentToken = Base
       THEN /\ Commit(releaseFundsPayment(Snapshot, index, sender))
            /\ frame' = [op |-> "releaseFunds", index |-> index,
                         sender |-> sender, saved |-> Snapshot]
       ELSE /\ Commit(releaseFundsLatch(
                          releaseFundsPayment(Snapshot, index, sender), index))
            /\ frame' = frame
    /\ UNCHANGED <<supportedTokens, paused, now, purchases>>

\* The owner's code returns (success), and releaseFunds runs to its end; or
\* it fails and require(success, "Base transfer failed") reverts the
\* transaction.
releaseFundsReturn(success) ==
    /\ frame.op = "releaseFunds"
    /\ IF success
       THEN Commit(releaseFundsLatch(Snapshot, frame.index))
       ELSE Commit(frame.saved)
    /\ frame' = NoFrame
    /\ UNCHANGED <<supportedTokens, paused, now, purchases>>

\* The modifiers and require statements of releaseFunds1, and the revert of
\* the transfer: IERC20(address(0)) has no code to call.
releaseFunds1Check(index, sender) ==
    IF ~(index < Len(events)) THEN "Panic: array out-of-bounds access"
    ELSE IF Ev(index).owner # sender THEN "Not event owner"
    ELSE IF entered THEN "ReentrancyGuard: reentrant call"
    ELSE IF ~(now > Ev(index).endDate) THEN "Event has not ended yet"
    ELSE IF Ev(index).isCanceled
        THEN "Cannot release funds for a canceled event"
    ELSE IF Ev(index).fundsReleased THEN "Funds already released"
    ELSE IF Ev(index).paymentToken = Base THEN "call to non-contract"
    ELSE IF balance[This][Ev(index).paymentToken] < Ev(index).fundsHeld
        THEN "Fund transfer failed"
    ELSE "ok"

releaseFunds1(index, sender) ==
    /\ releaseFunds1Check(index, sender) = "ok"
    /\ LET amountToRelease == Ev(index).fundsHeld
           S1 == [Snapshot EXCEPT !.events[index + 1].fundsHeld = 0,
                                  !.events[index + 1].fundsReleased = TRUE]
       IN  Commit([S1 EXCEPT !.balance =
                       Move(@, Ev(index).paymentToken, This, sender,
                            amountToRelease)])
    /\ UNCHANGED <<supportedTokens, paused, now, frame, purchases>>

ReleaseFunds ==
    \E index \in EventIds, sender \in Users : releaseFunds(index, sender)

ReleaseFundsReturn ==
    \E success \in BOOLEAN : releaseFundsReturn(success)

ReleaseFunds1 ==
    \E index \in EventIds, sender \in Users : releaseFunds1(index, sender)

(***************************************************************************)
(* Views.                                                                  *)
(***************************************************************************)
getEventLength == Len(events)

\* require(_index < events.length, "Event does not exist"), then the event,
\* its attendees and the copies kept for its owner.
getEventByIdCheck(index) ==
    IF ~(index < Len(events)) THEN "Event does not exist" ELSE "ok"

getEventById(index) ==
    <<Ev(index), eventAttendees[index], creatorEvents[Ev(index).owner]>>

\* The events a creator owns in the canonical list, in order of creation.
OwnedBy(creator) == SelectSeq(events, LAMBDA e : e.owner = creator)

\* getEventsByCreator as it would be if the creator's list were references
\* to the canonical events.
getEventsByCreatorLive(creator) == OwnedBy(creator)

\* return creatorEvents[_creator]
getEventsByCreator(creator) == creatorEvents[creator]

(***************************************************************************)
(* block.timestamp advances between transactions, never inside one.  The   *)
(* clock visits the deployment time and, for the schedules createEvent is  *)
(* given, every value the code compares block.timestamp with               *)
(* (startDate - REFUND_BUFFER, startDate, endDate) and the hour after      *)
(* endDate, up to MaxTime.                                                 *)
(***************************************************************************)
Clock ==
    {t \in DeployTime .. MaxTime :
        \/ t = DeployTime
        \/ \E s \in StartDates : t = s \/ t = s - REFUND_BUFFER
        \/ \E e \in EndDates : t = e \/ t = e + 1}

Tick ==
    /\ ~entered
    /\ \E t \in Clock :
           /\ t > now
           /\ \A u \in Clock : u > now => t <= u
           /\ now' = t
    /\ UNCHANGED <<supportedTokens, paused, events, eventAttendees, creatorEvents,
                   hasPurchasedTicket, baseFundsHeld, balance, frame, purchases>>

Next ==
    \/ CreateEvent
    \/ BuyTicket
    \/ OnTokenTransfer
    \/ CancelEvent
    \/ RequestRefund
    \/ RequestRefundReturn
    \/ RequestRefund1
    \/ ReleaseFunds
    \/ ReleaseFundsReturn
    \/ ReleaseFunds1
    \/ Tick

Spec == Init /\ [][Next]_vars

(***************************************************************************)
(* Vocabulary of the properties.                                           *)
(***************************************************************************)
Exists(i) == i \in EventIds /\ i < Len(events)

TokenOf(i) == Ev(i).paymentToken

\* How often identity a stands in the attendee list of event i.
Occurrences(i, a) ==
    Cardinality({k \in 1 .. Len(eventAttendees[i]) : eventAttendees[i][k] = a})

\* What the contract and the fee pool own together of asset t.
Custody(bal, t) == bal[This][t] + bal[ubiPool][t]

\* The reverts of requestRefund that come from the outbound transfer, not
\* from a require on the contract's own state.
TransferReverts == {"Base refund failed", "SafeERC20: transfer failed"}

(***************************************************************************)
(* C1 (as amended).  A purchase by a caller who already holds a ticket of  *)
(* the event never succeeds, through buyTicket or through the token        *)
(* callback; it fails with "Already purchased" whenever the checks that    *)
(* come first pass (no call in progress, the event not started and still   *)
(* active), and every identity stands at most once in an attendee list.    *)
(***************************************************************************)
C1_NoSecondTicket ==
    \A i \in EventIds, u \in Users :
        (Exists(i) /\ u \in hasPurchasedTicket[i]) =>
            /\ Occurrences(i, u) <= 1
            /\ \A value \in Values, allowance \in Allowances :
                   /\ buyTicketCheck(i, u, value, allowance) # "ok"
                   /\ (~entered /\ Ev(i).startDate > now /\ Ev(i).isActive)
                          => buyTicketCheck(i, u, value, allowance)
                                 = "Already purchased"
            /\ \A value \in Values :
                   /\ onTokenTransferCheck(u, value, i) # "ok"
                   /\ (/\ TokenOf(i) = GDOLLAR
                       /\ balance[u][GDOLLAR] >= value
                       /\ Ev(i).startDate > now /\ Ev(i).isActive)
                          => onTokenTransferCheck(u, value, i)
                                 = "Already purchased"

\* C1 witness: a ticket holder of an active event that has not started, with
\* no call in progress: a second purchase would reach the purchase check.
C1_Witness ==
    \E i \in EventIds, u \in Users :
        /\ Exists(i) /\ u \in hasPurchasedTicket[i]
        /\ ~entered /\ Ev(i).startDate > now /\ Ev(i).isActive

\* C1 as stated: every purchase by a ticket holder fails with
\* "Already purchased".
C1_Original ==
    \A i \in EventIds, u \in Users :
        (Exists(i) /\ u \in hasPurchasedTicket[i]) =>
            \A value \in Values, allowance \in Allowances :
                buyTicketCheck(i, u, value, allowance) = "Already purchased"

(***************************************************************************)
(* C2.  Once an event is canceled, requestRefund by a ticket holder passes *)
(* every require of the contract (stated for calls made while no other     *)
(* call is in progress, and leaving aside a revert of the outbound         *)
(* transfer itself).                                                       *)
(***************************************************************************)
C2_CanceledRefundAllowed ==
    \A i \in EventIds, u \in Users :
        (Exists(i) /\ Ev(i).isCanceled /\ u \in hasPurchasedTicket[i] /\ ~entered)
            => requestRefundCheck(i, u) \in {"ok"} \cup TransferReverts

(***************************************************************************)
(* C3 (as amended).  A release call on an event whose funds are released,  *)
(* or made while the native transfer of a release is running, never        *)
(* succeeds, and fundsReleased never goes back to false, so at most one    *)
(* release call per event ever succeeds; the call fails with "Funds        *)
(* already released" when fundsReleased is true, the caller is the owner,  *)
(* the event is not canceled and no call is in progress.                   *)
(***************************************************************************)
C3_ReleasedState ==
    \A i \in EventIds, s \in Users :
        (Exists(i) /\ (Ev(i).fundsReleased \/ frame.op = "releaseFunds")) =>
            /\ releaseFundsCheck(i, s) # "ok"
            /\ releaseFunds1Check(i, s) # "ok"
            /\ (/\ Ev(i).fundsReleased
                /\ s = Ev(i).owner /\ ~Ev(i).isCanceled /\ ~entered) =>
                   /\ releaseFundsCheck(i, s) = "Funds already released"
                   /\ releaseFunds1Check(i, s) = "Funds already released"

C3_ReleaseOnce ==
    /\ []C3_ReleasedState
    /\ [][\A i \in EventIds :
              (Exists(i) /\ Ev(i).fundsReleased) => Ev(i)'.fundsReleased]_vars

\* C3 witness: an event whose funds were released and that is not canceled,
\* with no call in progress.
C3_Witness ==
    \E i \in EventIds :
        Exists(i) /\ Ev(i).fundsReleased /\ ~Ev(i).isCanceled /\ ~entered

\* C3 as stated: every release call on a released event fails with
\* "Funds already released".
C3_Original ==
    \A i \in EventIds, s \in Users :
        (Exists(i) /\ Ev(i).fundsReleased) =>
            /\ releaseFundsCheck(i, s) = "Funds already released"
            /\ releaseFunds1Check(i, s) = "Funds already released"


(***************************************************************************)
(* C4.  A successful releaseFunds pays the event's owner exactly the       *)
(* escrow balance of the event's rail as it stood when the call began      *)
(* (out of the contract's holdings), leaves that balance 0 and             *)
(* fundsReleased true.  For a token event the call is one step; for a      *)
(* native event it ends when the owner's code returns, and frame.saved is  *)
(* the state in which it began.                                            *)
(***************************************************************************)
ReleasedExactly(pre, index, sender) ==
    LET token == pre.events[index + 1].paymentToken
        escrow == EscrowOf(pre, index)
    IN  /\ sender = pre.events[index + 1].owner
        /\ balance'[sender][token] = pre.balance[sender][token] + escrow
        /\ balance'[This][token] = pre.balance[This][token] - escrow
        /\ EscrowOf(Snapshot', index) = 0
        /\ Ev(index)'.fundsReleased

C4_ReleasePaysEscrow ==
    [][\A index \in EventIds, sender \in Users :
          /\ (releaseFunds(index, sender) /\ TokenOf(index) # Base)
                 => ReleasedExactly(Snapshot, index, sender)
          /\ (/\ releaseFundsReturn(TRUE)
              /\ frame.index = index /\ frame.sender = sender)
                 => ReleasedExactly(frame.saved, index, sender)]_vars

\* C4 witness: an event whose funds are released and whose owner owns more
\* of the event's asset than at the start: a positive escrow was paid out.
C4_Witness ==
    \E i \in EventIds :
        /\ Exists(i) /\ Ev(i).fundsReleased /\ ~entered
        /\ balance[Ev(i).owner][TokenOf(i)] > InitialBalance

(***************************************************************************)
(* C5.  On a rail without fee (native asset or standard token) buyTicket   *)
(* adds exactly ticketPrice to the event's escrow and takes it from the    *)
(* buyer, and requestRefund by the buyer clears the ticket flag, takes     *)
(* exactly ticketPrice off the escrow, pays it to the buyer and removes    *)
(* the buyer from the attendee list: the round trip restores the escrow    *)
(* and the buyer's balance.                                                *)
(***************************************************************************)
Refunded(pre, index, sender) ==
    LET token == pre.events[index + 1].paymentToken
        price == pre.events[index + 1].ticketPrice
    IN  /\ sender \notin hasPurchasedTicket'[index]
        /\ EscrowOf(Snapshot', index) = EscrowOf(pre, index) - price
        /\ balance'[sender][token] = pre.balance[sender][token] + price

C5_RoundTrip ==
    [][\A index \in EventIds, sender \in Users :
          /\ (/\ \E value \in Values, allowance \in Allowances :
                     buyTicket(index, sender, value, allowance, TRUE)
              /\ TokenOf(index) # GDOLLAR)
                 => /\ sender \in hasPurchasedTicket'[index]
                    /\ EscrowOf(Snapshot', index)
                           = EscrowOf(Snapshot, index) + Ev(index).ticketPrice
                    /\ balance'[sender][TokenOf(index)]
                           = balance[sender][TokenOf(index)]
                                 - Ev(index).ticketPrice
          /\ (requestRefund(index, sender) /\ TokenOf(index) # GDOLLAR)
                 => /\ Refunded(Snapshot, index, sender)
                    /\ TokenOf(index) # Base
                           => Occurrences(index, sender)' = 0
          /\ (/\ requestRefundReturn(TRUE)
              /\ frame.index = index /\ frame.sender = sender)
                 => /\ Refunded(frame.saved, index, sender)
                    /\ Occurrences(index, sender)' = 0]_vars

\* C5 witness: one event on a rail without fee, one ticket sold and
\* refunded: nobody holds a ticket, the escrow is 0 and every user owns
\* what they owned at the start.
C5_Witness ==
    /\ Len(events) = 1 /\ TokenOf(0) # GDOLLAR /\ ~entered
    /\ purchases = 1
    /\ hasPurchasedTicket[0] = {} /\ eventAttendees[0] = <<>>
    /\ EscrowOf(Snapshot, 0) = 0
    /\ \A u \in Users : balance[u][TokenOf(0)] = InitialBalance

(***************************************************************************)
(* C6.  For a non-canceled event, requestRefund by a ticket holder         *)
(* succeeds when block.timestamp < startDate - REFUND_BUFFER and fails     *)
(* with "Refund period ended" at every later time (stated for calls made   *)
(* while no other call is in progress).                                    *)
(***************************************************************************)
C6_RefundWindow ==
    \A i \in EventIds, u \in Users :
        (Exists(i) /\ ~Ev(i).isCanceled /\ u \in hasPurchasedTicket[i] /\ ~entered)
            => IF now < Ev(i).startDate - REFUND_BUFFER
               THEN requestRefundCheck(i, u) = "ok"
               ELSE requestRefundCheck(i, u) = "Refund period ended"

(***************************************************************************)
(* C7.  An operation whose external transfer fails leaves the event        *)
(* records, attendee lists, purchase flags and escrow ledgers as they      *)
(* were before the call: a native transfer that fails undoes the refund    *)
(* or release it belongs to, and a purchase whose fee transfer to the      *)
(* pool fails is not applied.                                              *)
(***************************************************************************)
LedgerUnchanged ==
    UNCHANGED <<events, eventAttendees, hasPurchasedTicket, baseFundsHeld>>

C7_FailedTransferAborts ==
    [][/\ (requestRefundReturn(FALSE) \/ releaseFundsReturn(FALSE))
              => Snapshot' = frame.saved
       /\ \A from \in Users, value \in Values, eventId \in EventIds :
              (onTokenTransfer(from, value, eventId, FALSE) /\ FeeOf(value) > 0)
                  => LedgerUnchanged
       /\ \A index \in EventIds, sender \in Users :
              (/\ buyTicket(index, sender, 0, 0, FALSE)
               /\ FeeOf(Ev(index).ticketPrice) > 0)
                  => LedgerUnchanged]_vars

(***************************************************************************)
(* C8 (as amended).  While the outbound transfer of a refund is running,   *)
(* the caller's ticket flag is already cleared, and a nested requestRefund *)
(* (or requestRefund1) by anyone for any event is rejected by the          *)
(* reentrancy guard.                                                       *)
(***************************************************************************)
C8_NestedRefundRejected ==
    frame.op = "requestRefund" =>
        /\ frame.sender \notin hasPurchasedTicket[frame.index]
        /\ \A i \in EventIds, u \in Users :
               /\ requestRefundCheck(i, u) = "ReentrancyGuard: reentrant call"
               /\ requestRefund1Check(i, u) = "ReentrancyGuard: reentrant call"

\* C8 witness: a native refund is suspended in its outbound transfer while
\* another identity still holds a ticket of the same event.
C8_Witness ==
    /\ frame.op = "requestRefund"
    /\ hasPurchasedTicket[frame.index] # {}

\* C8 as stated: the nested call of the recipient fails with
\* "No ticket purchased".
C8_Original ==
    frame.op = "requestRefund" =>
        requestRefundCheck(frame.index, frame.sender) = "No ticket purchased"

(***************************************************************************)
(* C9.  cancelEvent and releaseFunds (and releaseFunds1) by an identity    *)
(* that is not the event's owner fail with "Not event owner", and a        *)
(* release changes the balance of no user but the owner.                   *)
(***************************************************************************)
C9_NotOwnerRejected ==
    \A i \in EventIds, s \in Users :
        (Exists(i) /\ s # Ev(i).owner) =>
            /\ cancelEventCheck(i, s) = "Not event owner"
            /\ releaseFundsCheck(i, s) = "Not event owner"
            /\ releaseFunds1Check(i, s) = "Not event owner"

C9_OwnerOnly ==
    /\ []C9_NotOwnerRejected
    /\ [][\A index \in EventIds, sender \in Users :
              /\ cancelEvent(index, sender) => sender = Ev(index).owner
              /\ (releaseFunds(index, sender) \/ releaseFunds1(index, sender))
                     => /\ sender = Ev(index).owner
                        /\ \A u \in Users \ {sender} : balance'[u] = balance[u]]_vars

\* C9 witness: one event was canceled and the funds of another released,
\* while a user who owns neither exists.
C9_Witness ==
    \E i, j \in EventIds, u \in Users :
        /\ Exists(i) /\ Exists(j)
        /\ Ev(i).isCanceled /\ Ev(j).fundsReleased /\ ~Ev(j).isCanceled
        /\ EscrowOf(Snapshot, j) = 0 /\ balance[Ev(j).owner][TokenOf(j)] > InitialBalance
        /\ u # Ev(i).owner /\ u # Ev(j).owner

(***************************************************************************)
(* C10.  Every successful buyTicket takes exactly ticketPrice of the       *)
(* event's payment asset from the buyer and adds it to what the contract   *)
(* and the fee pool own.                                                   *)
(***************************************************************************)
C10_BuyerPays ==
    [][\A index \in EventIds, sender \in Users, value \in Values,
          allowance \in Allowances, feeSent \in BOOLEAN :
          buyTicket(index, sender, value, allowance, feeSent)
              => /\ balance'[sender][TokenOf(index)]
                        = balance[sender][TokenOf(index)] - Ev(index).ticketPrice
                 /\ Custody(balance', TokenOf(index))
                        = Custody(balance, TokenOf(index))
                              + Ev(index).ticketPrice]_vars

(***************************************************************************)
(* Purchases on the fee-bearing rail, with a token whose transfers         *)
(* succeed: the purchase of eventId that from makes through                *)
(* G$.transferAndCall, and the one sender makes through buyTicket.         *)
(***************************************************************************)
CallbackPurchase(from, eventId) ==
    \E value \in Values : onTokenTransfer(from, value, eventId, TRUE)

BuyTicketPurchase(index, sender) ==
    /\ \E value \in Values, allowance \in Allowances :
           buyTicket(index, sender, value, allowance, TRUE)
    /\ TokenOf(index) = GDOLLAR

(***************************************************************************)
(* C11.  On the fee-bearing rail one successful purchase of a ticket of    *)
(* price P, through buyTicket or through the token callback, adds exactly  *)
(* P - floor(P / 100) to the event's escrow and exactly floor(P / 100) to  *)
(* the fee pool.                                                           *)
(***************************************************************************)
C11_FeeSplit ==
    [][\A index \in EventIds, sender \in Users :
          (CallbackPurchase(sender, index) \/ BuyTicketPurchase(index, sender))
              => LET P == Ev(index).ticketPrice
                 IN  /\ Ev(index)'.fundsHeld
                            = Ev(index).fundsHeld + (P - (P \div 100))
                     /\ balance'[ubiPool][GDOLLAR]
                            = balance[ubiPool][GDOLLAR] + (P \div 100)]_vars

(***************************************************************************)
(* C12.  On the fee-bearing rail a purchase followed by requestRefund by   *)
(* the same buyer pays the buyer 99% of ticketPrice and returns the        *)
(* escrow to its value before the purchase: the purchase adds to the       *)
(* escrow exactly what the refund takes from it, and the refund takes      *)
(* from the escrow exactly what it pays.                                   *)
(***************************************************************************)
C12_FeeRoundTrip ==
    [][\A index \in EventIds, sender \in Users :
          /\ (CallbackPurchase(sender, index) \/ BuyTicketPurchase(index, sender))
                 => Ev(index)'.fundsHeld
                        = Ev(index).fundsHeld + RefundAmount(index)
          /\ (requestRefund(index, sender) /\ TokenOf(index) = GDOLLAR)
                 => /\ sender \notin hasPurchasedTicket'[index]
                    /\ Ev(index)'.fundsHeld
                           = Ev(index).fundsHeld - RefundAmount(index)
                    /\ balance'[sender][GDOLLAR]
                           = balance[sender][GDOLLAR]
                                 + (Ev(index).ticketPrice * 99) \div 100]_vars

(***************************************************************************)
(* C13.  In every reachable state the attendee list of every event has at  *)
(* most MAX_ATTENDEES entries.                                             *)
(***************************************************************************)
C13_CapacityBound ==
    \A i \in EventIds : Len(eventAttendees[i]) <= MAX_ATTENDEES

(***************************************************************************)
(* C14 (as amended).  For an event on the native rail buyTicket succeeds   *)
(* only when msg.value equals ticketPrice: with any other amount it        *)
(* fails, with "Incorrect Base amount" whenever the checks that come       *)
(* first pass (no call in progress, the event not started and active, the  *)
(* caller no ticket holder, the list below capacity); and a successful     *)
(* buyTicket adds exactly ticketPrice to the event's native bucket and to  *)
(* what the contract owns, and leaves fundsHeld alone.                     *)
(***************************************************************************)
ReachesPayment(i, u) ==
    /\ ~entered /\ Ev(i).startDate > now /\ Ev(i).isActive
    /\ u \notin hasPurchasedTicket[i]
    /\ Len(eventAttendees[i]) < MAX_ATTENDEES

C14_ExactAmountState ==
    \A i \in EventIds, u \in Users, value \in Values, allowance \in Allowances :
        (Exists(i) /\ TokenOf(i) = Base) =>
            /\ buyTicketCheck(i, u, value, allowance) = "ok"
                   => value = Ev(i).ticketPrice
            /\ (value # Ev(i).ticketPrice /\ ReachesPayment(i, u))
                   => buyTicketCheck(i, u, value, allowance)
                          = "Incorrect Base amount"

C14_ExactBasePayment ==
    /\ []C14_ExactAmountState
    /\ [][\A index \in EventIds, sender \in Users, value \in Values :
              (/\ \E allowance \in Allowances :
                      buyTicket(index, sender, value, allowance, TRUE)
               /\ TokenOf(index) = Base)
                  => /\ value = Ev(index).ticketPrice
                     /\ baseFundsHeld'[index]
                            = baseFundsHeld[index] + Ev(index).ticketPrice
                     /\ balance'[This][Base]
                            = balance[This][Base] + Ev(index).ticketPrice
                     /\ Ev(index)'.fundsHeld = Ev(index).fundsHeld]_vars

\* C14 witness: a native event with one ticket sold, its bucket holding
\* exactly the price, while another user's buyTicket would reach the amount
\* check.
C14_Witness ==
    \E i \in EventIds, u \in Users :
        /\ Exists(i) /\ TokenOf(i) = Base
        /\ Len(eventAttendees[i]) = 1
        /\ baseFundsHeld[i] = Ev(i).ticketPrice
        /\ ReachesPayment(i, u)

\* C14 as stated: every buyTicket on a native event with another amount
\* fails with "Incorrect Base amount".
C14_Original ==
    \A i \in EventIds, u \in Users, value \in Values, allowance \in Allowances :
        (Exists(i) /\ TokenOf(i) = Base /\ value # Ev(i).ticketPrice)
            => buyTicketCheck(i, u, value, allowance) = "Incorrect Base amount"

(***************************************************************************)
(* C15 (as amended).  releaseFunds succeeds only when block.timestamp is   *)
(* strictly greater than endDate; at any time up to and including endDate  *)
(* it fails, with "Event has not ended yet" when the caller is the owner   *)
(* and no call is in progress.                                             *)
(***************************************************************************)
C15_NotBeforeEndState ==
    \A i \in EventIds, s \in Users :
        (Exists(i) /\ ~(now > Ev(i).endDate)) =>
            /\ releaseFundsCheck(i, s) # "ok"
            /\ (s = Ev(i).owner /\ ~entered)
                   => releaseFundsCheck(i, s) = "Event has not ended yet"

C15_ReleaseAfterEnd ==
    /\ []C15_NotBeforeEndState
    /\ [][\A index \in EventIds, sender \in Users :
              releaseFunds(index, sender) => now > Ev(index).endDate]_vars

\* C15 witness: the time is exactly endDate of an event that sold a ticket,
\* is not canceled and not released, with no call in progress: the owner's
\* releaseFunds reaches the time check at its boundary.
C15_Witness ==
    \E i \in EventIds :
        /\ Exists(i) /\ now = Ev(i).endDate /\ ~entered
        /\ ~Ev(i).isCanceled /\ ~Ev(i).fundsReleased
        /\ EscrowOf(Snapshot, i) > 0

\* C15 as stated: every releaseFunds up to endDate fails with
\* "Event has not ended yet".
C15_Original ==
    \A i \in EventIds, s \in Users :
        (Exists(i) /\ ~(now > Ev(i).endDate))
            => releaseFundsCheck(i, s) = "Event has not ended yet"

(***************************************************************************)
(* C16 (as amended).  No release call on a canceled event succeeds         *)
(* (releaseFunds or releaseFunds1); the call fails with the canceled-event *)
(* error when the caller is the owner, no call is in progress and the      *)
(* event has ended; and the escrow of a canceled event goes down only in   *)
(* a refund to one of its ticket holders.  (A transaction that reverts     *)
(* while suspended in a native transfer undoes itself and the calls        *)
(* nested in it; that step restores the state in which the transaction     *)
(* began and is no operation of its own.)                                  *)
(***************************************************************************)
\* The revert of the transaction suspended in frame.
Rollback == requestRefundReturn(FALSE) \/ releaseFundsReturn(FALSE)

C16_CanceledState ==
    \A i \in EventIds, s \in Users :
        (Exists(i) /\ Ev(i).isCanceled) =>
            /\ releaseFundsCheck(i, s) # "ok"
            /\ releaseFunds1Check(i, s) # "ok"
            /\ (s = Ev(i).owner /\ ~entered /\ now > Ev(i).endDate) =>
                   /\ releaseFundsCheck(i, s)
                          = "Cannot release funds for canceled event"
                   /\ releaseFunds1Check(i, s)
                          = "Cannot release funds for a canceled event"

C16_NoReleaseWhenCanceled ==
    /\ []C16_CanceledState
    /\ [][\A i \in EventIds :
              (/\ ~Rollback
               /\ Exists(i) /\ Ev(i).isCanceled
               /\ EscrowOf(Snapshot', i) < EscrowOf(Snapshot, i))
                  => \E u \in hasPurchasedTicket[i] :
                         /\ requestRefund(i, u) \/ requestRefund1(i, u)
                         /\ balance'[u][TokenOf(i)] > balance[u][TokenOf(i)]]_vars

\* C16 witness: a canceled event that has ended and still holds escrow, with
\* no call in progress: the owner's release reaches the canceled check.
C16_Witness ==
    \E i \in EventIds :
        /\ Exists(i) /\ Ev(i).isCanceled /\ ~entered
        /\ now > Ev(i).endDate
        /\ EscrowOf(Snapshot, i) > 0

\* C16 as stated: every release call on a canceled event fails with the
\* canceled-event error.
C16_Original ==
    \A i \in EventIds, s \in Users :
        (Exists(i) /\ Ev(i).isCanceled) =>
            releaseFundsCheck(i, s) = "Cannot release funds for canceled event"

(***************************************************************************)
(* C17 (as amended).  A ticket purchase, through buyTicket or through the  *)
(* token callback, succeeds only on an event that is active, not canceled  *)
(* and not started; once block.timestamp >= startDate it fails with        *)
(* "Event expired", and on a canceled event that has not started with      *)
(* "Event inactive", whenever the checks that come first pass.             *)
(***************************************************************************)
C17_PurchaseGateState ==
    \A i \in EventIds, u \in Users, value \in Values :
        Exists(i) =>
            /\ Ev(i).isCanceled => ~Ev(i).isActive
            /\ ~(Ev(i).isActive /\ Ev(i).startDate > now) =>
                   /\ \A allowance \in Allowances :
                          buyTicketCheck(i, u, value, allowance) # "ok"
                   /\ onTokenTransferCheck(u, value, i) # "ok"
            /\ (~entered /\ ~(Ev(i).startDate > now)) =>
                   \A allowance \in Allowances :
                       buyTicketCheck(i, u, value, allowance) = "Event expired"
            /\ (/\ TokenOf(i) = GDOLLAR /\ balance[u][GDOLLAR] >= value
                /\ ~(Ev(i).startDate > now))
                   => onTokenTransferCheck(u, value, i) = "Event expired"
            /\ (~entered /\ Ev(i).startDate > now /\ ~Ev(i).isActive) =>
                   \A allowance \in Allowances :
                       buyTicketCheck(i, u, value, allowance) = "Event inactive"
            /\ (/\ TokenOf(i) = GDOLLAR /\ balance[u][GDOLLAR] >= value
                /\ Ev(i).startDate > now /\ ~Ev(i).isActive)
                   => onTokenTransferCheck(u, value, i) = "Event inactive"

C17_SoldOnlyBeforeStart ==
    /\ []C17_PurchaseGateState
    /\ [][\A index \in EventIds, sender \in Users, value \in Values :
              (\/ \E allowance \in Allowances, feeSent \in BOOLEAN :
                      buyTicket(index, sender, value, allowance, feeSent)
               \/ \E feeSent \in BOOLEAN :
                      onTokenTransfer(sender, value, index, feeSent))
                  => /\ Ev(index).isActive /\ ~Ev(index).isCanceled
                     /\ Ev(index).startDate > now]_vars

\* C17 witness: an event that sold a ticket and was then canceled before its
\* start, with no call in progress: a purchase reaches the active check.
C17_Witness ==
    \E i \in EventIds :
        /\ Exists(i) /\ Ev(i).isCanceled /\ ~entered
        /\ Ev(i).startDate > now
        /\ hasPurchasedTicket[i] # {}

\* C17 as stated: from startDate on every purchase fails with "Event
\* expired", and on a canceled event every purchase fails with "Event
\* inactive" (for calls made while no other call is in progress).
C17_Original ==
    \A i \in EventIds, u \in Users, value \in Values, allowance \in Allowances :
        (Exists(i) /\ ~entered) =>
            /\ ~(Ev(i).startDate > now)
                   => buyTicketCheck(i, u, value, allowance) = "Event expired"
            /\ Ev(i).isCanceled
                   => buyTicketCheck(i, u, value, allowance) = "Event inactive"

(***************************************************************************)
(* C18.  The three status flags of every event are one-way latches: no     *)
(* operation takes isActive from false to true, isCanceled from true to    *)
(* false or fundsReleased from true to false.  The revert of a             *)
(* transaction suspended in a native transfer is no operation: it puts     *)
(* back the state in which the transaction began, flags included.          *)
(***************************************************************************)
C18_Latches ==
    [][IF Rollback
       THEN Snapshot' = frame.saved
       ELSE \A i \in EventIds :
                Exists(i) =>
                    /\ i < Len(events')
                    /\ ~Ev(i).isActive => ~Ev(i)'.isActive
                    /\ Ev(i).isCanceled => Ev(i)'.isCanceled
                    /\ Ev(i).fundsReleased => Ev(i)'.fundsReleased]_vars

\* C18 witness: an event whose three flags have all flipped (released, then
\* canceled), with no call in progress.
C18_Witness ==
    \E i \in EventIds :
        /\ Exists(i) /\ ~entered
        /\ ~Ev(i).isActive /\ Ev(i).isCanceled /\ Ev(i).fundsReleased

(***************************************************************************)
(* C19.  cancelEvent by the owner of an active event succeeds, sets        *)
(* isActive to false and isCanceled to true and changes nothing else; on   *)
(* an event that is no longer active cancelEvent succeeds for nobody, and  *)
(* the owner's call fails with "Already canceled".                         *)
(***************************************************************************)
C19_CancelState ==
    \A i \in EventIds :
        Exists(i) =>
            /\ Ev(i).isActive => cancelEventCheck(i, Ev(i).owner) = "ok"
            /\ ~Ev(i).isActive =>
                   /\ Ev(i).isCanceled
                   /\ cancelEventCheck(i, Ev(i).owner) = "Already canceled"
                   /\ \A s \in Users : cancelEventCheck(i, s) # "ok"

C19_CancelOnce ==
    /\ []C19_CancelState
    /\ [][\A index \in EventIds, sender \in Users :
              cancelEvent(index, sender)
                  => /\ sender = Ev(index).owner
                     /\ Ev(index).isActive /\ ~Ev(index).isCanceled
                     /\ events' = [events EXCEPT ![index + 1].isActive = FALSE,
                                                 ![index + 1].isCanceled = TRUE]
                     /\ UNCHANGED <<eventAttendees, creatorEvents,
                                    hasPurchasedTicket, baseFundsHeld, balance>>]_vars

\* C19 witness: a canceled event next to an active one: the owner's second
\* cancelEvent of the first is rejected, the first cancelEvent of the second
\* is not.
C19_Witness ==
    \E i, j \in EventIds :
        /\ Exists(i) /\ Exists(j)
        /\ ~Ev(i).isActive /\ Ev(i).isCanceled
        /\ cancelEventCheck(i, Ev(i).owner) = "Already canceled"
        /\ Ev(j).isActive /\ cancelEventCheck(j, Ev(j).owner) = "ok"

(***************************************************************************)
(* C20.  A successful createEvent appends exactly one event, whose id is   *)
(* the number of events before the call, and leaves the events before it   *)
(* as they were; getEventById of that id then returns fundsHeld = 0,       *)
(* isActive = true, isCanceled = false, fundsReleased = false and no       *)
(* attendees, and nobody holds a ticket of it.  No operation removes an    *)
(* event or changes the owner, the schedule, the price or the payment      *)
(* token of one.                                                           *)
(***************************************************************************)
Fresh(event) ==
    /\ event.fundsHeld = 0 /\ event.isActive
    /\ ~event.isCanceled /\ ~event.fundsReleased

Identity(event) ==
    <<event.owner, event.startDate, event.endDate, event.ticketPrice,
      event.paymentToken>>

C20_Unused ==
    \A i \in EventIds :
        ~Exists(i) => /\ hasPurchasedTicket[i] = {}
                      /\ eventAttendees[i] = <<>>
                      /\ baseFundsHeld[i] = 0

C20_CreateAppends ==
    /\ []C20_Unused
    /\ [][/\ \A id \in EventIds :
                 (id = getEventLength /\ events' # events /\ CreateEvent)
                     => /\ getEventLength' = id + 1
                        /\ SubSeq(events', 1, id) = events
                        /\ getEventByIdCheck(id)' = "ok"
                        /\ Fresh(getEventById(id)[1])'
                        /\ getEventById(id)[2]' = <<>>
                        /\ hasPurchasedTicket'[id] = {}
                        /\ baseFundsHeld'[id] = 0
          /\ ~Rollback
                 => /\ getEventLength' >= getEventLength
                    /\ \A i \in EventIds :
                           Exists(i) => Identity(Ev(i))' = Identity(Ev(i))]_vars

\* C20 witness: two events were created one after the other, and the first
\* has sold a ticket since.
C20_Witness ==
    /\ getEventLength = 2
    /\ hasPurchasedTicket[0] # {}
    /\ Fresh(getEventById(1)[1]) /\ getEventById(1)[2] = <<>>

(***************************************************************************)
(* C21.  No buyer is refunded more often than they bought.  Every refund   *)
(* step (requestRefund or requestRefund1) is made by an identity whose     *)
(* ticket flag is set, clears the flag and pays the refund amount once;    *)
(* the flag of an identity is set again only by a purchase that identity   *)
(* makes; and while any guarded call is suspended in its transfer, no      *)
(* refund call is accepted.  (The revert of a suspended transaction puts   *)
(* the flag back together with the payment it undoes.)                     *)
(***************************************************************************)
C21_NoNestedRefund ==
    entered =>
        \A i \in EventIds, u \in Users :
            /\ requestRefundCheck(i, u) # "ok"
            /\ requestRefund1Check(i, u) # "ok"

C21_NoDoubleRefund ==
    /\ []C21_NoNestedRefund
    /\ [][~Rollback =>
             \A i \in EventIds, u \in Users :
                 /\ (requestRefund(i, u) \/ requestRefund1(i, u))
                        => /\ u \in hasPurchasedTicket[i]
                           /\ u \notin hasPurchasedTicket'[i]
                           /\ balance'[u][TokenOf(i)]
                                  = balance[u][TokenOf(i)] + RefundAmount(i)
                 /\ (u \notin hasPurchasedTicket[i] /\ u \in hasPurchasedTicket'[i])
                        => \E value \in Values, feeSent \in BOOLEAN :
                               \/ \E allowance \in Allowances :
                                      buyTicket(i, u, value, allowance, feeSent)
                               \/ onTokenTransfer(u, value, i, feeSent)]_vars

\* C21 witness: one event, two purchases and two refunds: nobody holds a
\* ticket and every user owns what they owned at the start.
C21_Witness ==
    /\ Len(events) = 1 /\ TokenOf(0) # GDOLLAR /\ ~entered
    /\ purchases = 2
    /\ hasPurchasedTicket[0] = {}
    /\ \A u \in Users : balance[u][TokenOf(0)] = InitialBalance

(***************************************************************************)
(* C22.  Solvency: for every asset, the escrow balances recorded for the   *)
(* events paid in that asset add up to no more than the contract holds of  *)
(* it.                                                                     *)
(***************************************************************************)
RECURSIVE EscrowSum(_, _)
EscrowSum(t, n) ==
    IF n = 0 THEN 0
    ELSE EscrowSum(t, n - 1)
             + (IF TokenOf(n - 1) = t THEN EscrowOf(Snapshot, n - 1) ELSE 0)

EscrowTotal(t) == EscrowSum(t, Len(events))

C22_Solvent ==
    \A t \in Assets : EscrowTotal(t) <= balance[This][t]

(***************************************************************************)
(* C23.  While requestRefund is suspended in its outbound transfer, the    *)
(* caller's ticket flag is cleared, the escrow ledger is reduced by the    *)
(* refund amount, and the caller is no longer in the attendee list.        *)
(***************************************************************************)
C23_EffectsBeforeTransfer ==
    frame.op = "requestRefund" =>
        /\ frame.sender \notin hasPurchasedTicket[frame.index]
        /\ baseFundsHeld[frame.index]
               = frame.saved.baseFundsHeld[frame.index] - RefundAmount(frame.index)
        /\ IndexOf(eventAttendees[frame.index], frame.sender) = 0

(***************************************************************************)
(* C24.  While releaseFunds is suspended in its outbound transfer to the   *)
(* creator, the event's escrow balance is zero and fundsReleased is true.  *)
(***************************************************************************)
C24_LatchBeforeTransfer ==
    frame.op = "releaseFunds" =>
        /\ EscrowOf(Snapshot, frame.index) = 0
        /\ Ev(frame.index).fundsReleased

(***************************************************************************)
(* C25.  While a guarded operation is suspended in its external transfer,  *)
(* no nested call of createEvent, buyTicket, cancelEvent, requestRefund,   *)
(* releaseFunds or of the token callback takes effect.                     *)
(***************************************************************************)
C25_NestedCallsRejected ==
    [][entered =>
           ~(\/ CreateEvent \/ BuyTicket \/ OnTokenTransfer \/ CancelEvent
             \/ RequestRefund \/ RequestRefund1
             \/ ReleaseFunds \/ ReleaseFunds1)]_vars

(***************************************************************************)
(* C26.  A fee-bearing purchase whose fee transfer to the pool reports     *)
(* failure is aborted: no ticket flag is set, no attendee is added and no  *)
(* escrow is credited.                                                     *)
(***************************************************************************)
C26_FailedFeeAborts ==
    [][\A eventId \in EventIds :
           (/\ \/ \E from \in Users, value \in Values :
                      onTokenTransfer(from, value, eventId, FALSE)
               \/ \E sender \in Users :
                      buyTicket(eventId, sender, 0, 0, FALSE)
            /\ FeeOf(Ev(eventId).ticketPrice) > 0)
               => /\ hasPurchasedTicket'[eventId] = hasPurchasedTicket[eventId]
                  /\ eventAttendees'[eventId] = eventAttendees[eventId]
                  /\ Ev(eventId)'.fundsHeld = Ev(eventId).fundsHeld]_vars

(***************************************************************************)
(* C27.  requestRefund by a ticket holder never fails for want of escrow:  *)
(* whenever an event has a ticket holder, the escrow on its rail is at     *)
(* least the refund amount.                                                *)
(***************************************************************************)
C27_EscrowCoversRefund ==
    \A i \in EventIds :
        (Exists(i) /\ hasPurchasedTicket[i] # {})
            => /\ EscrowOf(Snapshot, i) >= RefundAmount(i)
               /\ \A u \in hasPurchasedTicket[i] :
                      requestRefundCheck(i, u)
                          \notin {"Insufficient funds", "Insufficient Base funds"}

(***************************************************************************)
(* C28.  Between operations, every event on a rail without fee (native     *)
(* currency or a standard token) whose funds are not released holds in     *)
(* escrow its ticketPrice times the number of its attendees.               *)
(***************************************************************************)
C28_EscrowMatchesAttendees ==
    ~entered =>
        \A i \in EventIds :
            (Exists(i) /\ TokenOf(i) # GDOLLAR /\ ~Ev(i).fundsReleased)
                => EscrowOf(Snapshot, i)
                       = Ev(i).ticketPrice * Len(eventAttendees[i])

\* C28 witness: a refund has been paid and one ticket of an event without
\* fee is still held: one attendee, one ticketPrice in escrow.
C28_Witness ==
    /\ ~entered /\ purchases = 2
    /\ \E i \in EventIds :
           /\ Exists(i) /\ TokenOf(i) # GDOLLAR /\ ~Ev(i).fundsReleased
           /\ Ev(i).ticketPrice > 0
           /\ Len(eventAttendees[i]) = 1
           /\ EscrowOf(Snapshot, i) = Ev(i).ticketPrice
           /\ \A j \in EventIds : j # i => eventAttendees[j] = <<>>

(***************************************************************************)
(* C29.  Between operations, an identity is in an event's attendee list    *)
(* exactly when its purchased flag for the event is set, and it is in the  *)
(* list at most once.                                                      *)
(***************************************************************************)
C29_AttendeesMatchFlags ==
    ~entered =>
        \A i \in EventIds, a \in Addresses :
            /\ (Occurrences(i, a) >= 1) <=> (a \in hasPurchasedTicket[i])
            /\ Occurrences(i, a) <= 1

\* C29 witness: after two purchases and a refund one identity is left in
\* the list of an event, with its flag set, and the other is in neither.
C29_Witness ==
    /\ ~entered /\ purchases = 2
    /\ \E i \in EventIds, a \in Users, b \in Users :
           /\ a # b
           /\ eventAttendees[i] = <<a>> /\ hasPurchasedTicket[i] = {a}
           /\ balance[b][TokenOf(i)] = InitialBalance
           /\ balance[a][TokenOf(i)] < InitialBalance
           /\ \A j \in EventIds : j # i => eventAttendees[j] = <<>>

(***************************************************************************)
(* C30.  Once fundsReleased is true for an event it stays true, the        *)
(* event's escrow is zero from then on, and no later purchase, refund or   *)
(* release credits the escrow or pays a positive amount out of it.         *)
(***************************************************************************)
C30_ReleasedState ==
    \A i \in EventIds :
        (Exists(i) /\ Ev(i).fundsReleased) => EscrowOf(Snapshot, i) = 0

C30_ReleasedStaysEmpty ==
    /\ []C30_ReleasedState
    /\ [][\A i \in EventIds :
              (Exists(i) /\ Ev(i).fundsReleased)
                  => /\ i < Len(events')
                     /\ Ev(i)'.fundsReleased
                     /\ \A u \in Users :
                            /\ (requestRefund(i, u) \/ requestRefund1(i, u))
                                   => RefundAmount(i) = 0
                            /\ ~releaseFunds(i, u)
                            /\ ~releaseFunds1(i, u)
                            /\ \A value \in Values, feeSent \in BOOLEAN :
                                   /\ ~onTokenTransfer(u, value, i, feeSent)
                                   /\ \A allowance \in Allowances :
                                          ~buyTicket(i, u, value, allowance, feeSent)]_vars

\* C30 witness: tickets of a priced event were sold, its funds were released
\* and the event was canceled afterwards; a holder is still recorded.
C30_Witness ==
    /\ ~entered
    /\ \E i \in EventIds :
           /\ Exists(i) /\ Ev(i).fundsReleased /\ Ev(i).isCanceled
           /\ Ev(i).ticketPrice > 0
           /\ hasPurchasedTicket[i] # {}
           /\ EscrowOf(Snapshot, i) = 0

(***************************************************************************)
(* C31.  No event is both canceled and released: isCanceled and            *)
(* fundsReleased are never true together.                                  *)
(***************************************************************************)
C31_CanceledXorReleased ==
    \A i \in EventIds :
        Exists(i) => ~(Ev(i).isCanceled /\ Ev(i).fundsReleased)

(***************************************************************************)
(* C32.  A release does not deactivate the event: in every state an event  *)
(* is active exactly when it is not canceled, released or not, and every   *)
(* step of releaseFunds and releaseFunds1 leaves isActive as it was.       *)
(***************************************************************************)
C32_ActiveIffNotCanceled ==
    \A i \in EventIds : Exists(i) => (Ev(i).isActive <=> ~Ev(i).isCanceled)

C32_ReleaseKeepsActive ==
    /\ []C32_ActiveIffNotCanceled
    /\ [][\A i \in EventIds, u \in Users :
              (\/ releaseFunds(i, u)
               \/ releaseFunds1(i, u)
               \/ (releaseFundsReturn(TRUE) /\ frame.index = i))
                  => Ev(i)'.isActive = Ev(i).isActive]_vars

\* C32 witness: tickets were sold, the event ended and its funds were
\* released; the event is still active.
C32_Witness ==
    /\ ~entered
    /\ \E i \in EventIds :
           /\ Exists(i) /\ Ev(i).isActive /\ Ev(i).fundsReleased
           /\ eventAttendees[i] # <<>>
           /\ balance[Ev(i).owner][TokenOf(i)] > InitialBalance

\* C32 as stated: no event is active and released.
C32_Original ==
    \A i \in EventIds :
        Exists(i) => ~(Ev(i).isActive /\ Ev(i).fundsReleased)

(***************************************************************************)
(* C33.  A refund never returns more than the purchase put into escrow:    *)
(* for every ticket price P, floor(99 * P / 100) <= P - floor(P / 100);    *)
(* the refund amount of every event is at most what one purchase credits   *)
(* to its ledger; neither ledger is ever negative; and a refund step pays  *)
(* the buyer exactly what it takes out of the ledger.                      *)
(***************************************************************************)
CreditOf(i) ==
    IF TokenOf(i) = GDOLLAR
    THEN Ev(i).ticketPrice - FeeOf(Ev(i).ticketPrice)
    ELSE Ev(i).ticketPrice

C33_RefundBound ==
    /\ \A P \in 0 .. MAX_TICKET_PRICE : (P * 99) \div 100 <= P - FeeOf(P)
    /\ \A i \in EventIds :
           /\ baseFundsHeld[i] >= 0
           /\ Exists(i) => /\ Ev(i).fundsHeld >= 0
                           /\ RefundAmount(i) <= CreditOf(i)

C33_RefundWithinEscrow ==
    /\ []C33_RefundBound
    /\ [][\A i \in EventIds, u \in Users :
              (requestRefund(i, u) \/ requestRefund1(i, u))
                  => /\ balance'[u][TokenOf(i)]
                            = balance[u][TokenOf(i)] + RefundAmount(i)
                     /\ EscrowOf(Snapshot', i)
                            = EscrowOf(Snapshot, i) - RefundAmount(i)
                     /\ EscrowOf(Snapshot', i) >= 0]_vars

\* C33 witness: a G$ ticket of price 150 was bought through the token and
\* refunded: the buyer got 148 back and 1 of the 149 credited stays in escrow.
C33_Witness ==
    /\ ~entered /\ purchases = 1
    /\ \E i \in EventIds, u \in Users :
           /\ Exists(i) /\ TokenOf(i) = GDOLLAR /\ Ev(i).ticketPrice = 150
           /\ hasPurchasedTicket[i] = {}
           /\ balance[u][GDOLLAR] = InitialBalance - 150 + 148
           /\ balance[ubiPool][GDOLLAR] = 1
           /\ Ev(i).fundsHeld = 1

(***************************************************************************)
(* C34.  createEvent stores an event only when its startDate is strictly   *)
(* later than the current time.                                            *)
(***************************************************************************)
C34_StartStrictlyFuture ==
    [][\A id \in EventIds :
           (id = getEventLength /\ events' # events /\ CreateEvent)
               => Ev(id)'.startDate > now]_vars

(***************************************************************************)
(* C35.  The two ledgers are never commingled: an event paid in the native *)
(* currency has fundsHeld = 0, an event paid in a token has                *)
(* baseFundsHeld = 0, and no step changes the ledger of the other rail.    *)
(***************************************************************************)
C35_OwnLedgerOnly ==
    \A i \in EventIds :
        IF Exists(i)
        THEN IF TokenOf(i) = Base
             THEN Ev(i).fundsHeld = 0
             ELSE baseFundsHeld[i] = 0
        ELSE baseFundsHeld[i] = 0

C35_LedgersSeparate ==
    /\ []C35_OwnLedgerOnly
    /\ [][\A i \in EventIds :
              Exists(i)
                  => IF TokenOf(i) = Base
                     THEN i < Len(events') => Ev(i)'.fundsHeld = Ev(i).fundsHeld
                     ELSE baseFundsHeld'[i] = baseFundsHeld[i]]_vars

\* C35 witness: a native event and a token event, a ticket of each sold:
\* each holds its escrow in its own ledger.
C35_Witness ==
    /\ ~entered
    /\ \E i \in EventIds, j \in EventIds :
           /\ Exists(i) /\ Exists(j)
           /\ TokenOf(i) = Base /\ baseFundsHeld[i] > 0 /\ Ev(i).fundsHeld = 0
           /\ TokenOf(j) # Base /\ Ev(j).fundsHeld > 0 /\ baseFundsHeld[j] = 0

(***************************************************************************)
(* C36.  A successful buyTicket makes the caller, and nobody else, a       *)
(* ticket holder: one flag is set and one entry is appended to the         *)
(* attendee list.                                                          *)
(***************************************************************************)
C36_OnlyCallerHolds ==
    [][\A index \in EventIds, sender \in Users :
           (\E value \in Values, allowance \in Allowances, feeSent \in BOOLEAN :
                buyTicket(index, sender, value, allowance, feeSent))
               => /\ hasPurchasedTicket'[index]
                         = hasPurchasedTicket[index] \cup {sender}
                  /\ eventAttendees'[index]
                         = Append(eventAttendees[index], sender)]_vars

(***************************************************************************)
(* C37.  The creator, ticketPrice, paymentToken, startDate and endDate of  *)
(* a stored event never change, and every purchase, refund and release of  *)
(* an event moves the event's paymentToken and no other asset.             *)
(***************************************************************************)
OnlyAssetMoves(t) ==
    \A a \in Addresses, other \in Assets :
        other # t => balance'[a][other] = balance[a][other]

C38_CopiesAsCreated ==
    \A c \in Users :
        /\ Len(getEventsByCreator(c)) = Len(OwnedBy(c))
        /\ \A k \in 1 .. Len(getEventsByCreator(c)) :
               /\ Fresh(getEventsByCreator(c)[k])
               /\ Identity(getEventsByCreator(c)[k]) = Identity(OwnedBy(c)[k])

C38_CreatorListFrozen ==
    /\ []C38_CopiesAsCreated
    /\ [][(\/ CancelEvent \/ BuyTicket \/ OnTokenTransfer
           \/ RequestRefund \/ RequestRefund1 \/ requestRefundReturn(TRUE)
           \/ ReleaseFunds \/ ReleaseFunds1 \/ releaseFundsReturn(TRUE))
              => creatorEvents' = creatorEvents]_vars

\* C38 witness: a USDC ticket was sold and the event was then canceled; the
\* creator's copy still shows it active with no funds.
C38_Witness ==
    /\ ~entered
    /\ \E i \in EventIds :
           /\ Exists(i) /\ Ev(i).isCanceled /\ Ev(i).fundsHeld > 0
           /\ \E k \in 1 .. Len(getEventsByCreator(Ev(i).owner)) :
                  /\ Identity(getEventsByCreator(Ev(i).owner)[k]) = Identity(Ev(i))
                  /\ Fresh(getEventsByCreator(Ev(i).owner)[k])

(***************************************************************************)
(* C39.  The paused flag is false in every state and no step changes it,   *)
(* so no call of createEvent, buyTicket, the token callback, cancelEvent,  *)
(* requestRefund or requestRefund1 is rejected with "Contract paused".     *)
(***************************************************************************)
C39_GateOpen ==
    /\ ~paused
    /\ \A i \in EventIds, u \in Users :
           /\ cancelEventCheck(i, u) # "Contract paused"
           /\ requestRefundCheck(i, u) # "Contract paused"
           /\ requestRefund1Check(i, u) # "Contract paused"
           /\ \A value \in Values :
                  /\ onTokenTransferCheck(u, value, i) # "Contract paused"
                  /\ \A allowance \in Allowances :
                         buyTicketCheck(i, u, value, allowance) # "Contract paused"
    /\ \A lens \in StringLens, startDate \in StartDates, endDate \in EndDates,
          ticketPrice \in Prices, paymentToken \in Tokens :
           createEventCheck(lens[1], lens[2], lens[3], lens[4], startDate,
                            endDate, ticketPrice, paymentToken)
               # "Contract paused"

C39_NeverPaused ==
    /\ []C39_GateOpen
    /\ [][paused' = paused]_vars

\* C39 witness: every gated operation has succeeded: an event was created,
\* its ticket bought, the event canceled and the ticket refunded.
C39_Witness ==
    /\ ~paused /\ ~entered /\ purchases = 1
    /\ \E i \in EventIds :
           /\ Exists(i) /\ Ev(i).isCanceled
           /\ hasPurchasedTicket[i] = {} /\ EscrowOf(Snapshot, i) = 0
           /\ ~Ev(i).fundsReleased
    /\ \A u \in Users, t \in Assets : balance[u][t] <= InitialBalance
    /\ \E u \in Users : balance[u][GDOLLAR] < InitialBalance

(***************************************************************************)
(* C40.  Events are independent: a purchase, cancellation, refund or       *)
(* release of event i leaves the record, the attendee list, the purchase   *)
(* flags and both ledgers of every other event as they were.  (The revert  *)
(* of a suspended transaction undoes the whole transaction, nested calls   *)
(* on other events included, and is not a step of an operation.)           *)
(***************************************************************************)
OperationOn(i) ==
    \/ \E u \in Users :
           \/ cancelEvent(i, u)
           \/ requestRefund(i, u) \/ requestRefund1(i, u)
           \/ releaseFunds(i, u) \/ releaseFunds1(i, u)
           \/ \E value \in Values, feeSent \in BOOLEAN :
                  \/ onTokenTransfer(u, value, i, feeSent)
                  \/ \E allowance \in Allowances :
                         buyTicket(i, u, value, allowance, feeSent)
    \/ (requestRefundReturn(TRUE) /\ frame.index = i)
    \/ (releaseFundsReturn(TRUE) /\ frame.index = i)

OtherEventUnchanged(j) ==
    /\ eventAttendees'[j] = eventAttendees[j]
    /\ hasPurchasedTicket'[j] = hasPurchasedTicket[j]
    /\ baseFundsHeld'[j] = baseFundsHeld[j]
    /\ Exists(j) => /\ j < Len(events')
                    /\ Ev(j)' = Ev(j)

C40_EventsIndependent ==
    [][\A i \in EventIds :
           OperationOn(i)
               => \A j \in EventIds : j # i => OtherEventUnchanged(j)]_vars

\* C40 witness: two events with a ticket holder each; one has been canceled
\* since, the other is untouched.
C40_Witness ==
    /\ ~entered /\ Len(events) = 2
    /\ \E i \in EventIds, j \in EventIds :
           /\ i # j
           /\ hasPurchasedTicket[i] # {} /\ hasPurchasedTicket[j] # {}
           /\ Ev(i).isCanceled
           /\ Fresh([Ev(j) EXCEPT !.fundsHeld = 0])
           /\ EscrowOf(Snapshot, j) > 0

=============================================================================
